---- MODULE Spec2Model ----
(***************************************************************************)
(* A model of the TCP relay server of src/main.rs: the listener thread     *)
(* (main), one thread per accepted connection (handle_client), the ctrl-c  *)
(* handler, the shared connection registry behind its mutex, the framing   *)
(* reader (read_bytes) and the per-session rate limiter.                   *)
(*                                                                         *)
(* Threads are interleaved at the points where they touch shared state:    *)
(* the mutex, the running flag, the sockets and the clock.  A critical     *)
(* section that only reads or writes the registry (capacity test, id roll, *)
(* insert, remove, final sweep) is one step taken while the mutex is free; *)
(* a broadcast holds the mutex over one step per socket write.             *)
(*                                                                         *)
(* Mutex::lock() fails only when the mutex is poisoned, that is when a     *)
(* thread panicked while holding it; no code run under the lock panics, so *)
(* the Err arms of the lock() matches are not reachable and not modelled.  *)
(* try_clone failing (line 181) and accept or set_handler failing with a   *)
(* hard error (lines 369, 398) need descriptor exhaustion and are left to  *)
(* the environment's good behaviour.                                       *)
(***************************************************************************)
EXTENDS Integers, Sequences, FiniteSets, TLC

\* ------------------------------------------------------------------ bounds
NSock == 3         \* sockets (connection attempts) that exist at all
NClients == 2      \* clients that connect under Spec
NumIds == 2        \* how many ids of the range 10000..16383 the draws fall on
MaxSends == 2      \* chunks the clients put on the wire under Spec
RateSends == 4     \* frames the client sends under SpecRate
MaxTime == 4       \* clock ticks SpecRate follows
TicksPerSec == 2   \* clock ticks in one second
ScenarioSends == 62  \* frames client A sends under SpecScenario: one, then 61
StopSends == 1     \* chunks the clients put on the wire under SpecStop
ReadSends == 3     \* chunks the client puts on the wire under SpecRead
SumSends == 3      \* frames the client sends under SpecSum

\* ------------------------------------------------------- program constants
IdLo == 10000      \* random_range(10000..16384), line 165
HeaderLen == 4     \* [0u8; 4], line 198
MaxPacket == 512   \* size > 512, line 220
MinPacket == 4     \* size < 4, line 225

Socks == 1..NSock

VARIABLES
    config,        \* ServerConfig: mirror, max_players, max_rate
    running,       \* Arc<AtomicBool>
    mainpc,        \* where the main thread is
    lock,          \* the threads holding the connections mutex
    connections,   \* HashMap<i32, TcpStream>: id -> socket
    ses,           \* handle_client's locals, per socket
    sock,          \* each socket: the client's end, bytes in flight, bytes delivered
    shut,          \* sockets the server has shut down (Shutdown::Both)
    now,           \* Instant::now(), in ticks
    sends,         \* chunks put on the wire so far
    late_accepts,  \* streams accept() has returned since running was cleared
    draws,         \* the ids rand::rng().random_range(10000..16384) falls on
    at_interrupt   \* the registered sockets and the sessions in their loops
                   \* when the handler ran (a record kept for the properties)

vars == <<config, running, mainpc, lock, connections, ses, sock, shut, now, sends,
          late_accepts, draws, at_interrupt>>

\* ----------------------------------------------------------------- helpers
Min(a, b) == IF a <= b THEN a ELSE b

Lowest(S) == CHOOSE x \in S : \A y \in S : x <= y

Zeros(n) == [i \in 1..n |-> 0]

Range(f) == {f[x] : x \in DOMAIN f}

\* HashMap::insert: the value under an existing key is replaced
Insert(m, k, v) == [x \in (DOMAIN m) \cup {k} |-> IF x = k THEN v ELSE m[x]]

\* a remove that leaves the entry in the map
RemoveKeyKeeps(m, k) == m

\* HashMap::remove: no-op when the key is absent
RemoveKey(m, k) == [x \in (DOMAIN m) \ {k} |-> m[x]]

\* i32::from_le_bytes: the top bit of the last byte is the sign
FromLeBytes(b) ==
    b[1] + 256 * b[2] + 65536 * b[3]
         + 16777216 * (IF b[4] >= 128 THEN b[4] - 256 ELSE b[4])

\* a session before its thread runs, and the locals of one loop iteration
FreshLoop(st) ==
    [st EXCEPT !.size_bytes = Zeros(HeaderLen), !.hread = 0, !.size = 0,
               !.content_bytes = <<>>, !.cread = 0, !.todo = {}, !.cur = 0]

NoSession ==
    [pc |-> "idle", id |-> 0, size_bytes |-> Zeros(HeaderLen), hread |-> 0,
     size |-> 0, content_bytes |-> <<>>, cread |-> 0,
     msg_times |-> <<>>, msg_sum |-> 0, todo |-> {}, cur |-> 0,
     bseq |-> 0, fwd |-> <<>>, cause |-> "none"]

NoSocket == [cstate |-> "idle", srv |-> "none", wire |-> <<>>, inbox |-> <<>>]

InitWith(cfg, n) ==
    /\ config = cfg
    /\ draws = IdLo..(IdLo + n - 1)
    /\ running = TRUE
    /\ mainpc = "test"
    /\ lock = {}
    /\ connections = <<>>
    /\ ses = [s \in Socks |-> NoSession]
    /\ sock = [s \in Socks |-> NoSocket]
    /\ shut = {}
    /\ now = 0
    /\ sends = 0
    /\ late_accepts = 0
    /\ at_interrupt = [reg |-> {}, live |-> {}]

Alive == mainpc # "done"

\* where a session is while it is inside the loop of lines 196-283
LoopPcs == {"header", "content", "broadcast", "writing"}

\* ------------------------------------------------------------- main thread
Pending == {s \in Socks : sock[s].cstate # "idle" /\ sock[s].srv = "none"}

\* a capacity test that lets one connection too many in
AtCapacityOffByOne == Cardinality(DOMAIN connections) > config.max_players

\* _connections.len() as i32 >= config.max_players
AtCapacity == Cardinality(DOMAIN connections) >= config.max_players

\* a loop test that never reads the flag
MainLoopTestBlind ==
    /\ mainpc = "test"
    /\ mainpc' = "accept"
    /\ UNCHANGED <<config, running, lock, connections, ses, sock, shut, now, sends, late_accepts, draws, at_interrupt>>

\* while ready && running.load(Ordering::SeqCst)
MainLoopTest ==
    /\ mainpc = "test"
    /\ mainpc' = IF running THEN "accept" ELSE "shutdown"
    /\ UNCHANGED <<config, running, lock, connections, ses, sock, shut, now, sends, late_accepts, draws, at_interrupt>>

\* listener.accept(): WouldBlock sleeps and retries; a stream is refused at
\* capacity and otherwise handed to a new thread
MainAccept ==
    /\ mainpc = "accept"
    /\ mainpc' = "test"
    /\ IF Pending = {}
       THEN UNCHANGED <<ses, sock, late_accepts>>
       ELSE /\ lock = {}
            /\ late_accepts' = IF running THEN late_accepts ELSE late_accepts + 1
            /\ LET s == Lowest(Pending)
               IN  IF AtCapacity
                   THEN /\ sock' = [sock EXCEPT ![s].srv = "refused"]
                        /\ UNCHANGED ses
                   ELSE /\ sock' = [sock EXCEPT ![s].srv = "accepted"]
                        /\ ses' = [ses EXCEPT ![s].pc = "roll"]
    /\ UNCHANGED <<config, running, lock, connections, shut, now, sends, draws, at_interrupt>>

\* the shut down block: conn.shutdown(Both) on every registered socket
MainShutdown ==
    /\ mainpc = "shutdown"
    /\ lock = {}
    /\ shut' = shut \cup Range(connections)
    /\ mainpc' = "exit"
    /\ UNCHANGED <<config, running, lock, connections, ses, sock, now, sends, late_accepts, draws, at_interrupt>>

\* main returns: the process ends and every thread with it
ProcessExit ==
    /\ mainpc = "exit"
    /\ mainpc' = "done"
    /\ UNCHANGED <<config, running, lock, connections, ses, sock, shut, now, sends, late_accepts, draws, at_interrupt>>

\* the ctrlc handler: running.store(false)
Interrupt ==
    /\ Alive
    /\ running
    /\ running' = FALSE
    /\ at_interrupt' = [reg |-> Range(connections),
                        live |-> {s \in Socks : ses[s].pc \in LoopPcs}]
    /\ UNCHANGED <<config, mainpc, lock, connections, ses, sock, shut, now, sends, late_accepts, draws>>

\* ---------------------------------------------------- session: registering
\* the roll id block: a draw is repeated while it is 0 or a key of the map;
\* with every id of the range taken the loop spins with the mutex held
RollId(s) ==
    /\ Alive
    /\ ses[s].pc = "roll"
    /\ lock = {}
    /\ LET free == draws \ DOMAIN connections
       IN  IF free = {}
           THEN /\ lock' = {s}
                /\ ses' = [ses EXCEPT ![s].pc = "spin"]
           ELSE /\ \E c \in free : ses' = [ses EXCEPT ![s].id = c, ![s].pc = "add"]
                /\ UNCHANGED lock
    /\ UNCHANGED <<config, running, mainpc, connections, sock, shut, now, sends, late_accepts, draws, at_interrupt>>

\* the add to connections block: _connections.insert(id, _stream)
AddConn(s) ==
    /\ Alive
    /\ ses[s].pc = "add"
    /\ lock = {}
    /\ connections' = Insert(connections, ses[s].id, s)
    /\ ses' = [ses EXCEPT ![s].pc = "header"]
    /\ UNCHANGED <<config, running, mainpc, lock, sock, shut, now, sends, late_accepts, draws, at_interrupt>>

\* -------------------------------------------------------- session: reading
\* a read_bytes that starts its buffer over after a timed-out read
ReadPassRestarts(s, buffer, read, length) ==
    LET w == sock[s].wire
        stay(st) == [st |-> st, buffer |-> buffer, read |-> read, n |-> 0]
        got(n) ==
            [st |-> IF read + n < length THEN "More" ELSE "Ok",
             buffer |-> [i \in 1..Len(buffer) |->
                            IF i > read /\ i <= read + n THEN w[i - read] ELSE buffer[i]],
             read |-> read + n,
             n |-> n]
    IN  IF ~running THEN {stay("ErrNone")}
        ELSE IF w # <<>>
             THEN {got(Min(length - read, Len(w)))}
                  \cup (IF s \in shut THEN {stay("ErrNone")} ELSE {})
        ELSE IF s \in shut \/ sock[s].cstate = "closed" THEN {stay("ErrNone")}
        ELSE IF sock[s].cstate = "reset" THEN {stay("ErrSome")}
        ELSE {[st |-> "More", buffer |-> Zeros(Len(buffer)), read |-> 0, n |-> 0]}

\* One pass of read_bytes' while loop entered with read < length: the outcomes
\* of the running test and of stream.read(&mut buf).  st is "More" while the
\* loop goes on, "Ok" for Ok(()), "ErrNone" for Err(None), "ErrSome" for
\* Err(Some(e)); n is the number of bytes taken off the wire.  A read returns
\* the bytes that have arrived, up to the length of buf; which bytes have
\* arrived is the client's choice of chunks.
ReadPass(s, buffer, read, length) ==
    LET w == sock[s].wire
        stay(st) == [st |-> st, buffer |-> buffer, read |-> read, n |-> 0]
        got(n) ==
            [st |-> IF read + n < length THEN "More" ELSE "Ok",
             buffer |-> [i \in 1..Len(buffer) |->
                            IF i > read /\ i <= read + n THEN w[i - read] ELSE buffer[i]],
             read |-> read + n,
             n |-> n]
    IN  IF ~running THEN {stay("ErrNone")}
        ELSE IF w # <<>>
             THEN {got(Min(length - read, Len(w)))}
                  \cup (IF s \in shut THEN {stay("ErrNone")} ELSE {})
        ELSE IF s \in shut \/ sock[s].cstate = "closed" THEN {stay("ErrNone")}
        ELSE IF sock[s].cstate = "reset" THEN {stay("ErrSome")}
        ELSE {stay("More")}

Taken(s, n) ==
    [sock EXCEPT ![s].wire = SubSeq(sock[s].wire, n + 1, Len(sock[s].wire))]

\* leaving the read loop by break; hread stays as the record of how much of
\* the last header had been read
Break(st, why) ==
    [FreshLoop(st) EXCEPT !.pc = "remove", !.cause = why, !.hread = st.hread]

\* the size test between the two reads
SizeCheck(st) ==
    LET size == FromLeBytes(st.size_bytes)
    IN  IF size > MaxPacket THEN Break(st, "too_large")
        ELSE IF size < MinPacket THEN Break(st, "too_small")
        ELSE [st EXCEPT !.size = size, !.content_bytes = Zeros(size - HeaderLen),
                        !.cread = 0, !.pc = "content"]

\* read size: read_bytes(&stream, &mut size_bytes, 4, &running) and its match
ReadHeader(s) ==
    /\ Alive
    /\ ses[s].pc = "header"
    /\ \E r \in ReadPass(s, ses[s].size_bytes, ses[s].hread, HeaderLen) :
          LET st == [ses[s] EXCEPT !.size_bytes = r.buffer, !.hread = r.read]
          IN  /\ sock' = Taken(s, r.n)
              /\ ses' = [ses EXCEPT ![s] =
                            IF r.st = "More" THEN st
                            ELSE IF r.st = "ErrSome" THEN Break(st, "io_error")
                            ELSE SizeCheck(st)]
    /\ UNCHANGED <<config, running, mainpc, lock, connections, shut, now, sends, late_accepts, draws, at_interrupt>>

\* ----------------------------------------------------- the rate limiter
\* a trim that pops the front entry and leaves its weight in the sum
RECURSIVE TrimKeepsSum(_, _, _)
TrimKeepsSum(q, sum, t) ==
    IF q # <<>> /\ t - Head(q).t > TicksPerSec
    THEN TrimKeepsSum(Tail(q), sum, t)
    ELSE [q |-> q, sum |-> sum]

\* while let Some((t, n)) = msg_times.front(): entries older than one second
\* leave the front
RECURSIVE Trim(_, _, _)
Trim(q, sum, t) ==
    IF q # <<>> /\ t - Head(q).t > TicksPerSec
    THEN Trim(Tail(q), sum - Head(q).n, t)
    ELSE [q |-> q, sum |-> sum]

\* a threshold test that rejects nothing
RejectedNever(sum) == FALSE

\* a threshold test that lets a frame through at the threshold
RejectedAbove(sum) == sum > config.max_rate

\* if msg_sum >= config.max_rate { continue; }
Rejected(sum) == sum >= config.max_rate

\* a throttle block that charges a dropped frame to the window
ThrottleCountsDropped(st) ==
    LET tr == Trim(st.msg_times, st.msg_sum, now)
    IN  IF Rejected(tr.sum)
        THEN [FreshLoop(st) EXCEPT !.msg_times = Append(tr.q, [t |-> now, n |-> st.size]),
                                   !.msg_sum = tr.sum + st.size,
                                   !.pc = "header"]
        ELSE [st EXCEPT !.msg_times = Append(tr.q, [t |-> now, n |-> st.size]),
                        !.msg_sum = tr.sum + st.size,
                        !.fwd = Append(st.fwd, [t |-> now, n |-> st.size]),
                        !.pc = "broadcast"]

\* the throttle block, entered when the content read has returned
Throttle(st) ==
    LET tr == Trim(st.msg_times, st.msg_sum, now)
    IN  IF Rejected(tr.sum)
        THEN [FreshLoop(st) EXCEPT !.msg_times = tr.q, !.msg_sum = tr.sum,
                                   !.pc = "header"]
        ELSE [st EXCEPT !.msg_times = Append(tr.q, [t |-> now, n |-> st.size]),
                        !.msg_sum = tr.sum + st.size,
                        !.fwd = Append(st.fwd, [t |-> now, n |-> st.size]),
                        !.pc = "broadcast"]

\* read content: read_bytes(&stream, &mut content_bytes, content_size, &running),
\* its match, and the throttle block that follows it
ReadContent(s) ==
    /\ Alive
    /\ ses[s].pc = "content"
    /\ IF ses[s].cread >= Len(ses[s].content_bytes)
       THEN /\ ses' = [ses EXCEPT ![s] = Throttle(ses[s])]
            /\ UNCHANGED sock
       ELSE \E r \in ReadPass(s, ses[s].content_bytes, ses[s].cread,
                              Len(ses[s].content_bytes)) :
               LET st == [ses[s] EXCEPT !.content_bytes = r.buffer, !.cread = r.read]
               IN  /\ sock' = Taken(s, r.n)
                   /\ ses' = [ses EXCEPT ![s] =
                                 IF r.st = "More" THEN st
                                 ELSE IF r.st = "ErrSome" THEN Break(st, "io_error")
                                 ELSE Throttle(st)]
    /\ UNCHANGED <<config, running, mainpc, lock, connections, shut, now, sends, late_accepts, draws, at_interrupt>>

\* ---------------------------------------------------- session: broadcast
\* a fan-out that does not skip the sender
TargetsAll(s) == DOMAIN connections

\* if other_id != &id || config.mirror
Targets(s) == {i \in DOMAIN connections : i # ses[s].id \/ config.mirror}

\* a write reaches the client while its end is open and the socket not shut down
Writable(r) == sock[r].cstate = "open" /\ r \notin shut

\* conn.write_all(bytes); the result is dropped (let _ =)
WriteAll(sk, r, s, bytes) ==
    IF Writable(r) /\ bytes # <<>>
    THEN [sk EXCEPT ![r].inbox =
             Append(@, [from |-> s, seq |-> ses[s].bseq, bytes |-> bytes])]
    ELSE sk

\* a broadcast that iterates the map without waiting for the mutex
BroadcastLockRacy(s) ==
    /\ Alive
    /\ ses[s].pc = "broadcast"
    /\ IF Targets(s) = {}
       THEN /\ ses' = [ses EXCEPT ![s] = [FreshLoop(@) EXCEPT !.pc = "header",
                                                               !.bseq = @ + 1]]
            /\ UNCHANGED lock
       ELSE /\ ses' = [ses EXCEPT ![s].pc = "writing", ![s].todo = Targets(s),
                                  ![s].bseq = @ + 1]
            /\ lock' = lock \cup {s}
    /\ UNCHANGED <<config, running, mainpc, connections, sock, shut, now, sends, late_accepts, draws, at_interrupt>>

\* connections.lock() of the broadcast block
BroadcastLock(s) ==
    /\ Alive
    /\ ses[s].pc = "broadcast"
    /\ lock = {}
    /\ IF Targets(s) = {}
       THEN /\ ses' = [ses EXCEPT ![s] = [FreshLoop(@) EXCEPT !.pc = "header",
                                                               !.bseq = @ + 1]]
            /\ UNCHANGED lock
       ELSE /\ ses' = [ses EXCEPT ![s].pc = "writing", ![s].todo = Targets(s),
                                  ![s].bseq = @ + 1]
            /\ lock' = {s}
    /\ UNCHANGED <<config, running, mainpc, connections, sock, shut, now, sends, late_accepts, draws, at_interrupt>>

\* the next entry of _connections.iter(): conn.write_all(&size_bytes)
BroadcastHeader(s) ==
    /\ Alive
    /\ ses[s].pc = "writing"
    /\ ses[s].cur = 0
    /\ \E i \in ses[s].todo :
          /\ sock' = WriteAll(sock, connections[i], s, ses[s].size_bytes)
          /\ ses' = [ses EXCEPT ![s].todo = @ \ {i}, ![s].cur = i]
    /\ UNCHANGED <<config, running, mainpc, lock, connections, shut, now, sends, late_accepts, draws, at_interrupt>>

\* conn.write_all(&content_bytes); after the last entry the guard is dropped
\* and the loop starts over
BroadcastContent(s) ==
    /\ Alive
    /\ ses[s].pc = "writing"
    /\ ses[s].cur # 0
    /\ sock' = WriteAll(sock, connections[ses[s].cur], s, ses[s].content_bytes)
    /\ IF ses[s].todo = {}
       THEN /\ ses' = [ses EXCEPT ![s] = [FreshLoop(@) EXCEPT !.pc = "header"]]
            /\ lock' = lock \ {s}
       ELSE /\ ses' = [ses EXCEPT ![s].cur = 0]
            /\ UNCHANGED lock
    /\ UNCHANGED <<config, running, mainpc, connections, shut, now, sends, late_accepts, draws, at_interrupt>>

\* the remove from connections block: _connections.remove(&id)
Remove(s) ==
    /\ Alive
    /\ ses[s].pc = "remove"
    /\ lock = {}
    /\ connections' = RemoveKey(connections, ses[s].id)
    /\ ses' = [ses EXCEPT ![s].pc = "closed"]
    /\ UNCHANGED <<config, running, mainpc, lock, sock, shut, now, sends, late_accepts, draws, at_interrupt>>

\* ------------------------------------------------------------ environment
\* the chunks a client may put on the wire under Spec: a frame of size 5, its
\* header alone, and a header that declares 513 bytes
Chunks == {<<5, 0, 0, 0, 7>>, <<5, 0, 0, 0>>, <<1, 2, 0, 0>>}

ClientConnect(s) ==
    /\ Alive
    /\ sock[s].cstate = "idle"
    /\ \A t \in Socks : t < s => sock[t].cstate # "idle"
    /\ sock' = [sock EXCEPT ![s].cstate = "open"]
    /\ UNCHANGED <<config, running, mainpc, lock, connections, ses, shut, now, sends, late_accepts, draws, at_interrupt>>

ClientSend(s, p, limit) ==
    /\ Alive
    /\ sends < limit
    /\ sock[s].cstate = "open"
    /\ sock[s].srv = "accepted"
    /\ ses[s].pc \in {"header", "content"}
    /\ sock[s].wire = <<>>
    /\ sock' = [sock EXCEPT ![s].wire = p]
    /\ sends' = sends + 1
    /\ UNCHANGED <<config, running, mainpc, lock, connections, ses, shut, now, late_accepts, draws, at_interrupt>>

ClientClose(s) ==
    /\ Alive
    /\ sock[s].cstate = "open"
    /\ sock[s].srv = "accepted"
    /\ ses[s].pc # "closed"
    /\ sock' = [sock EXCEPT ![s].cstate = "closed"]
    /\ UNCHANGED <<config, running, mainpc, lock, connections, ses, shut, now, sends, late_accepts, draws, at_interrupt>>

ClientReset(s) ==
    /\ Alive
    /\ sock[s].cstate = "open"
    /\ sock[s].srv = "accepted"
    /\ ses[s].pc # "closed"
    /\ sock' = [sock EXCEPT ![s].cstate = "reset", ![s].wire = <<>>]
    /\ UNCHANGED <<config, running, mainpc, lock, connections, ses, shut, now, sends, late_accepts, draws, at_interrupt>>

Tick ==
    /\ Alive
    /\ now < MaxTime
    /\ now' = now + 1
    /\ UNCHANGED <<config, running, mainpc, lock, connections, ses, sock, shut, sends, late_accepts, draws, at_interrupt>>

\* ---------------------------------------------------------- specifications
Server ==
    \/ MainLoopTest
    \/ MainAccept
    \/ MainShutdown
    \/ ProcessExit
    \/ Interrupt

Session(s) ==
    \/ RollId(s)
    \/ AddConn(s)
    \/ ReadHeader(s)
    \/ ReadContent(s)
    \/ BroadcastLock(s)
    \/ BroadcastHeader(s)
    \/ BroadcastContent(s)
    \/ Remove(s)

Configs ==
    {[mirror |-> TRUE, max_players |-> 1, max_rate |-> 8000],
     [mirror |-> FALSE, max_players |-> 2, max_rate |-> 8000]}

Init == \E cfg \in Configs : InitWith(cfg, NumIds)

Next ==
    \/ Server
    \/ \E s \in 1..NClients : Session(s)
    \/ \E s \in 1..NClients : ClientConnect(s)
    \/ \E s \in 1..NClients : \E p \in Chunks : ClientSend(s, p, MaxSends)
    \/ \E s \in 1..NClients : ClientClose(s)
    \/ \E s \in 1..NClients : ClientReset(s)

Spec == Init /\ [][Next]_vars

\* One client, the clock running: the rate limiter at work.  The client sends
\* whole frames of 5 and of 4 bytes against a max_rate of 9.
RateChunks == {<<5, 0, 0, 0, 7>>, <<4, 0, 0, 0>>}

InitRate == InitWith([mirror |-> TRUE, max_players |-> 1, max_rate |-> 9], NumIds)

NextRate ==
    \/ MainLoopTest
    \/ MainAccept
    \/ Session(1)
    \/ ClientConnect(1)
    \/ \E p \in RateChunks : ClientSend(1, p, RateSends)
    \/ ClientClose(1)
    \/ Tick

SpecRate == InitRate /\ [][NextRate]_vars

\* The scenario of three clients A, B, C (sockets 1, 2, 3) with mirror off and
\* max_rate 60: once the three are registered under three ids, A sends whole
\* 10-byte frames, all within one second.
ScenarioClients == {1, 2, 3}

ScenarioFrame == <<10, 0, 0, 0, 1, 2, 3, 4, 5, 6>>

InitScenario ==
    InitWith([mirror |-> FALSE, max_players |-> 10, max_rate |-> 60],
             Cardinality(ScenarioClients))

ScenarioSend ==
    /\ \A s \in ScenarioClients : ses[s].pc \in {"header", "content", "broadcast", "writing"}
    /\ Cardinality(DOMAIN connections) = Cardinality(ScenarioClients)
    /\ ClientSend(1, ScenarioFrame, ScenarioSends)

NextScenario ==
    \/ MainLoopTest
    \/ MainAccept
    \/ \E s \in ScenarioClients :
          \/ ClientConnect(s)
          \/ RollId(s)
          \/ AddConn(s)
          \/ ReadHeader(s)
          \/ ReadContent(s)
          \/ BroadcastLock(s)
          \/ BroadcastHeader(s)
          \/ BroadcastContent(s)
    \/ ScenarioSend

SpecScenario == InitScenario /\ [][NextScenario]_vars

\* Shutdown under fair scheduling.  Every thread that can take a step takes
\* one in the end: the main thread, and each session thread, whose reads are
\* bounded by the 5000 ms timeout of line 170 and whose writes are taken to
\* return.  Nothing is assumed of the clients or of when the interrupt comes.
StopChunks == {<<5, 0, 0, 0, 7>>, <<5, 0, 0, 0>>}

InitStop == InitWith([mirror |-> FALSE, max_players |-> 2, max_rate |-> 8000], NumIds)

NextStop ==
    \/ Server
    \/ \E s \in 1..NClients : Session(s)
    \/ \E s \in 1..NClients : ClientConnect(s)
    \/ \E s \in 1..NClients : \E p \in StopChunks : ClientSend(s, p, StopSends)
    \/ \E s \in 1..NClients : ClientClose(s)

FairStop ==
    /\ WF_vars(MainLoopTest)
    /\ WF_vars(MainAccept)
    /\ WF_vars(MainShutdown)
    /\ WF_vars(ProcessExit)
    /\ \A s \in 1..NClients : WF_vars(Session(s))

SpecStop == InitStop /\ [][NextStop]_vars /\ FairStop

\* One client whose frames arrive in pieces: a 6-byte frame cut into the first
\* half of its header, the second half with the first payload byte, and the
\* last payload byte.  Between the pieces the session's reads time out.
ReadChunks == {<<6, 0>>, <<0, 0, 1>>, <<2>>}

InitRead == InitWith([mirror |-> TRUE, max_players |-> 1, max_rate |-> 8000], NumIds)

NextRead ==
    \/ Server
    \/ Session(1)
    \/ ClientConnect(1)
    \/ \E p \in ReadChunks : ClientSend(1, p, ReadSends)
    \/ ClientClose(1)
    \/ ClientReset(1)

SpecRead == InitRead /\ [][NextRead]_vars

\* One client alone with the limiter at its limits: max_rate below zero, zero,
\* and just above the weight of two frames of the least size; the client sends
\* whole frames of the least size, 4 bytes, and of the greatest, 512 bytes.
\* With mirror off and no peer a broadcast has no socket to write to.
SmallFrame == <<4, 0, 0, 0>>

BigFrame == [i \in 1..MaxPacket |-> IF i = 2 THEN 2 ELSE 0]

SumConfigs ==
    {[mirror |-> FALSE, max_players |-> 1, max_rate |-> r] : r \in {-1, 0, 8, 9}}

InitSum == \E cfg \in SumConfigs : InitWith(cfg, NumIds)

NextSum ==
    \/ MainLoopTest
    \/ MainAccept
    \/ RollId(1)
    \/ AddConn(1)
    \/ ReadHeader(1)
    \/ ReadContent(1)
    \/ BroadcastLock(1)
    \/ Remove(1)
    \/ ClientConnect(1)
    \/ \E p \in {SmallFrame, BigFrame} : ClientSend(1, p, SumSends)
    \/ ClientClose(1)
    \/ Tick

SpecSum == InitSum /\ [][NextSum]_vars

\* The id range used up: max_players lets in as many sessions as there are
\* clients, and the range 10000..16383 holds one id less.
InitIds ==
    InitWith([mirror |-> TRUE, max_players |-> NClients, max_rate |-> 8000],
             NClients - 1)

SpecIds == InitIds /\ [][NextStop]_vars /\ FairStop

\* ------------------------------------------------------------------ claims
RegisteredIn(conns, s) == \E i \in DOMAIN conns : conns[i] = s

Registered(s) == RegisteredIn(connections, s)

\* a session that has registered and has not left its read loop
InLoop(s) == ses[s].pc \in LoopPcs

Tag(c) == <<c.from, c.seq>>

Tags(r) == {Tag(sock[r].inbox[k]) : k \in DOMAIN sock[r].inbox}

FirstAt(r, x) == Lowest({k \in DOMAIN sock[r].inbox : Tag(sock[r].inbox[k]) = x})

Contiguous(r) ==
    \A i, j, k \in DOMAIN sock[r].inbox :
        (i < j /\ j < k /\ Tag(sock[r].inbox[i]) = Tag(sock[r].inbox[k]))
            => Tag(sock[r].inbox[j]) = Tag(sock[r].inbox[i])

BadSize == {"too_large", "too_small"}

\* C1: no two sessions that are in their read loops at the same time hold the
\* same id.
C1_LiveIdsDistinct ==
    \A s, t \in Socks :
        (s # t /\ InLoop(s) /\ InLoop(t)) => ses[s].id # ses[t].id

\* C2: a frame that is broadcast has a size S in 4..512, its S bytes in the
\* buffers are the S bytes read from the sender (header and content read in
\* full), it goes to the registry entries other than the sender's id, and to
\* the sender's too iff mirror is on, and what a peer receives of it is the
\* header or the content as buffered.
C2_FrameRelayedUnchanged ==
    \A s \in Socks :
        ses[s].pc \in {"broadcast", "writing"} =>
            /\ ses[s].size >= MinPacket /\ ses[s].size <= MaxPacket
            /\ ses[s].hread = HeaderLen
            /\ ses[s].cread = ses[s].size - HeaderLen
            /\ Len(ses[s].content_bytes) = ses[s].size - HeaderLen
            /\ \A i \in ses[s].todo \cup ({ses[s].cur} \ {0}) :
                  i \in DOMAIN connections /\ (i # ses[s].id \/ config.mirror)
            /\ \A r \in Socks : \A k \in DOMAIN sock[r].inbox :
                  Tag(sock[r].inbox[k]) = <<s, ses[s].bseq>> =>
                      sock[r].inbox[k].bytes \in {ses[s].size_bytes, ses[s].content_bytes}

\* C3: at most one session is writing a broadcast at a time; on every socket
\* the writes of one broadcast are not separated by a write of another; and
\* two broadcasts that reach two sockets reach them in the same order.
C3_BroadcastsSerialized ==
    /\ Cardinality({s \in Socks : ses[s].pc = "writing"}) <= 1
    /\ \A r \in Socks : Contiguous(r)
    /\ \A r1, r2 \in Socks :
          \A x, y \in Tags(r1) \cap Tags(r2) :
              x # y => ((FirstAt(r1, x) < FirstAt(r1, y)) <=> (FirstAt(r2, x) < FirstAt(r2, y)))

\* two broadcasts of two senders have both reached two sockets
C3_Witness ==
    \E r1, r2 \in Socks :
        /\ r1 # r2
        /\ \E x, y \in Tags(r1) \cap Tags(r2) : x[1] # y[1]

\* C4: a header read in full that decodes to a size above 512 or below 4 sends
\* the session to its remove block with nothing written to any socket and the
\* limiter as it was, and the remove takes that session out of the registry
\* and no other.
C4_BadSizeClosesOnlySender ==
    [][\A s \in Socks :
          /\ (/\ ses[s].pc = "header"
              /\ ses'[s].cause \in BadSize
              /\ ses'[s].hread = HeaderLen) =>
                /\ ses'[s].pc = "remove"
                /\ \A r \in Socks : sock'[r].inbox = sock[r].inbox
                /\ ses'[s].msg_times = ses[s].msg_times
                /\ ses'[s].msg_sum = ses[s].msg_sum
                /\ connections' = connections
          /\ (/\ ses[s].pc = "remove"
              /\ ses[s].cause \in BadSize
              /\ ses[s].hread = HeaderLen
              /\ ses'[s].pc = "closed") =>
                /\ ~RegisteredIn(connections', s)
                /\ \A u \in Socks \ {s} :
                      RegisteredIn(connections, u) => RegisteredIn(connections', u)
      ]_vars

\* C7: a stream accepted while the registry holds max_players entries or more
\* is refused, and a refused socket never has a session, a registry entry, a
\* byte delivered to it or a frame relayed from it.
C7_RefusedAtCapacity ==
    /\ [](\A s \in Socks :
            sock[s].srv = "refused" =>
                /\ ses[s] = NoSession
                /\ ~Registered(s)
                /\ sock[s].inbox = <<>>
                /\ \A r \in Socks : \A k \in DOMAIN sock[r].inbox :
                      sock[r].inbox[k].from # s)
    /\ [][\A s \in Socks :
            (/\ sock[s].srv = "none"
             /\ sock'[s].srv # "none"
             /\ Cardinality(DOMAIN connections) >= config.max_players)
                => sock'[s].srv = "refused"
         ]_vars

\* a connection was refused, and the session that fills the registry has
\* relayed a frame since
C7_Witness ==
    \E s, u \in Socks :
        /\ sock[s].srv = "refused"
        /\ sock[s].cstate = "open"
        /\ Registered(u)
        /\ sock[u].inbox # <<>>

\* C8: the registry never holds more than max_players entries, and no more
\* than max_players sessions are in their read loops.
C8_RegistryWithinMaxPlayers ==
    /\ Cardinality(DOMAIN connections) <= config.max_players
    /\ Cardinality({s \in Socks : InLoop(s)}) <= config.max_players

\* C9: a session that has left its read loop goes on to its remove block and
\* nowhere else; the remove leaves no entry under its id; once it is closed
\* no entry holds its socket and no byte is delivered to it any more.
C9_RemovedAfterLoop ==
    /\ [](\A s \in Socks : ses[s].pc = "closed" => ~Registered(s))
    /\ [][\A s \in Socks :
            /\ ses[s].pc = "remove" => ses'[s].pc \in {"remove", "closed"}
            /\ (ses[s].pc = "remove" /\ ses'[s].pc = "closed") =>
                  ses[s].id \notin DOMAIN connections'
            /\ ses[s].pc = "closed" =>
                  (ses'[s].pc = "closed" /\ sock'[s].inbox = sock[s].inbox)
         ]_vars

\* a closed session's id is held by a registered session in its read loop,
\* which is broadcasting
C9_Witness ==
    \E s, u \in Socks :
        /\ s # u
        /\ ses[s].pc = "closed"
        /\ ses[u].pc = "writing"
        /\ ses[u].id = ses[s].id
        /\ ses[u].id \in DOMAIN connections
        /\ connections[ses[u].id] = u

\* C10 as claimed: once running is false no accept returns a stream.
C10_NoAcceptAfterInterrupt == late_accepts = 0

\* C10 as amended: once running is false at most one accept returns a stream,
\* the accept of the loop pass whose test had read true; a main thread that
\* is not in that accept never accepts again.
C10_OneLateAcceptAtMost ==
    /\ [](late_accepts <= 1)
    /\ [][(~running /\ mainpc # "accept") =>
             (mainpc' # "accept" /\ \A s \in Socks : sock'[s].srv = sock[s].srv)
         ]_vars

\* a stream was accepted after running was cleared, and its session registered
C10_Witness ==
    /\ late_accepts = 1
    /\ \E s \in Socks : InLoop(s) /\ sock[s].srv = "accepted" /\ mainpc = "done"

\* the weight forwarded at the times lo..hi, from the record of forwarded frames
RECURSIVE WindowSum(_, _, _)
WindowSum(h, lo, hi) ==
    IF h = <<>> THEN 0
    ELSE (IF Head(h).t >= lo /\ Head(h).t <= hi THEN Head(h).n ELSE 0)
         + WindowSum(Tail(h), lo, hi)

\* the weight of the last frame forwarded at a time in lo..hi, 0 without one
RECURSIVE LastIn(_, _, _)
LastIn(h, lo, hi) ==
    IF h = <<>> THEN 0
    ELSE IF h[Len(h)].t >= lo /\ h[Len(h)].t <= hi THEN h[Len(h)].n
    ELSE LastIn(SubSeq(h, 1, Len(h) - 1), lo, hi)

\* the step in which session s has run its throttle block
Throttled(s) == ses[s].pc = "content" /\ ses'[s].pc \in {"broadcast", "header"}

\* C5 as claimed: the weight forwarded within any one second never exceeds
\* max_rate; a frame is dropped exactly when forwarding it would take the
\* weight of the trailing second above max_rate.
C5_WindowWithinRate ==
    /\ [](\A s \in Socks : \A a \in 0..MaxTime :
            WindowSum(ses[s].fwd, a, a + TicksPerSec) <= config.max_rate)
    /\ [][\A s \in Socks :
            Throttled(s) =>
                (ses'[s].pc = "broadcast" <=>
                    WindowSum(ses[s].fwd, now - TicksPerSec, now) + ses[s].size
                        <= config.max_rate)
         ]_vars

\* C5 as amended: the weight forwarded within any one second stays below
\* max_rate plus the weight of the last frame forwarded in that second; a
\* frame is forwarded exactly when the weight forwarded in the trailing second
\* is below max_rate, and a dropped frame is not queued.
C5_WindowBelowRatePlusLast ==
    /\ [](\A s \in Socks : \A a \in 0..MaxTime :
            LastIn(ses[s].fwd, a, a + TicksPerSec) > 0 =>
                WindowSum(ses[s].fwd, a, a + TicksPerSec)
                    < config.max_rate + LastIn(ses[s].fwd, a, a + TicksPerSec))
    /\ [][\A s \in Socks :
            Throttled(s) =>
                /\ ses'[s].pc = "broadcast" <=>
                      WindowSum(ses[s].fwd, now - TicksPerSec, now) < config.max_rate
                /\ ses'[s].pc = "header" =>
                      /\ ses'[s].fwd = ses[s].fwd
                      /\ Len(ses'[s].msg_times) <= Len(ses[s].msg_times)
                      /\ ses'[s].msg_sum <= ses[s].msg_sum
         ]_vars

\* every frame sent has been through the limiter, one was dropped, and the
\* weight forwarded within one second has passed max_rate
C5_Witness ==
    \E s \in Socks :
        /\ ses[s].pc = "header" /\ ses[s].hread = 0 /\ sock[s].wire = <<>>
        /\ sock[s].cstate = "open"
        /\ Len(ses[s].fwd) < sends
        /\ \E a \in 0..MaxTime :
              WindowSum(ses[s].fwd, a, a + TicksPerSec) > config.max_rate
        /\ now - ses[s].fwd[Len(ses[s].fwd)].t <= TicksPerSec
        /\ Len(ses[s].msg_times) < Len(ses[s].fwd)

RECURSIVE Flat(_)
Flat(inbox) == IF inbox = <<>> THEN <<>> ELSE Head(inbox).bytes \o Flat(Tail(inbox))

RECURSIVE Repeat(_, _)
Repeat(f, n) == IF n <= 0 THEN <<>> ELSE f \o Repeat(f, n - 1)

\* session A has dealt with every byte its client has sent
ScenarioQuiet == ses[1].pc = "header" /\ ses[1].hread = 0 /\ sock[1].wire = <<>>

\* C6 as claimed: B and C receive the first frame and A nothing, and of the
\* 61 frames that follow B and C receive 60.
C6_SixtyOfSixtyOne ==
    ScenarioQuiet =>
        /\ sock[1].inbox = <<>>
        /\ \A r \in ScenarioClients \ {1} :
              /\ sends = 1 => Flat(sock[r].inbox) = ScenarioFrame
              /\ sends = 62 => Flat(sock[r].inbox) = Repeat(ScenarioFrame, 61)

\* C6 as amended: B and C receive the first frame and A nothing; of the frames
\* that follow B and C receive the first five, which take the bytes forwarded
\* to max_rate = 60, and none of the rest.
C6_SixFramesOfSixtyTwo ==
    ScenarioQuiet =>
        /\ sock[1].inbox = <<>>
        /\ \A r \in ScenarioClients \ {1} :
              Flat(sock[r].inbox) =
                  Repeat(ScenarioFrame,
                         Min(sends, config.max_rate \div Len(ScenarioFrame)))

\* A has sent all its frames and B holds six of them
C6_Witness ==
    /\ ScenarioQuiet
    /\ sends = ScenarioSends
    /\ Flat(sock[2].inbox) = Repeat(ScenarioFrame, 6)
    /\ Flat(sock[3].inbox) = Repeat(ScenarioFrame, 6)

\* C11: once running is false the main thread leaves its loop and then runs
\* its shut down block, which shuts down every socket the registry holds at
\* that moment and leaves the registry as it is; every socket the registry
\* held when the handler ran is in the end shut down by that block or taken
\* out of the registry by its own session's remove block.
C11_SweepClosesRegistered ==
    /\ (~running ~> mainpc \in {"shutdown", "exit", "done"})
    /\ (~running ~> mainpc \in {"exit", "done"})
    /\ [][(mainpc = "shutdown" /\ mainpc' # "shutdown") =>
             (shut' = shut \cup Range(connections) /\ connections' = connections)
         ]_vars
    /\ \A s \in Socks :
          (s \in at_interrupt.reg) ~>
              (s \in shut \/ (ses[s].pc = "closed" /\ ~Registered(s)))

\* a pass of read_bytes by session s that returns Err(None): the flag is
\* cleared, or nothing is left to read and the peer has closed or the socket
\* was shut down
EndsEarly(s) ==
    /\ ses[s].pc \in {"header", "content"}
    /\ ses'[s] # ses[s]
    /\ \/ ~running
       \/ sock[s].wire = <<>> /\ (sock[s].cstate = "closed" \/ s \in shut)
    /\ ~(ses[s].pc = "content" /\ ses[s].cread >= Len(ses[s].content_bytes))

\* C12: a session is in its broadcast block only with the 4 header bytes and
\* the size - 4 content bytes all read from the socket, and a read that ends
\* early on a close or on cancellation sends the session to its remove block.
C12_BroadcastOnlyAfterFullRead ==
    /\ [](\A s \in Socks :
            ses[s].pc \in {"broadcast", "writing"} =>
                /\ ses[s].hread = HeaderLen
                /\ ses[s].cread = ses[s].size - HeaderLen)
    /\ [][\A s \in Socks : EndsEarly(s) => ses'[s].pc = "remove"]_vars

\* the keys under which the registry holds socket s
KeysOf(s) == {i \in DOMAIN connections : connections[i] = s}

\* C13: a session in its read loop has one registry entry, under its own id,
\* holding its own socket; an entry is put in only where there was none, by
\* the session whose socket it holds, and taken out only by that session.
C13_OneEntryPerLiveSession ==
    /\ [](\A s \in Socks : InLoop(s) => KeysOf(s) = {ses[s].id})
    /\ [][\A i \in DOMAIN connections :
            \/ i \in DOMAIN connections' /\ connections'[i] = connections[i]
            \/ /\ i \notin DOMAIN connections'
               /\ ses[connections[i]].pc = "remove"
               /\ ses'[connections[i]].pc = "closed"
         ]_vars
    /\ [][\A i \in DOMAIN connections' :
            i \notin DOMAIN connections =>
                /\ ses[connections'[i]].pc = "add"
                /\ ses'[connections'[i]].pc = "header"
                /\ ses[connections'[i]].id = i
         ]_vars

\* the sum of the weights of a queue of (t, n) entries
RECURSIVE QueueSum(_)
QueueSum(q) == IF q = <<>> THEN 0 ELSE Head(q).n + QueueSum(Tail(q))

\* the entries of q that are not older than one second at time t
Fresh(q, t) == SelectSeq(q, LAMBDA e : t - e.t <= TicksPerSec)

\* C14: a frame read in full is forwarded exactly when the weights of the
\* queue entries not older than one second sum to less than max_rate; a
\* dropped frame is written to no socket, the queue and the sum hold the
\* entries not older than one second and nothing of the frame, the registry is
\* as it was, and the session is registered and back at reading a header.
C14_ForwardedIffBelowRate ==
    [][\A s \in Socks :
          (Throttled(s) /\ ~EndsEarly(s)) =>
              LET kept == Fresh(ses[s].msg_times, now)
              IN  /\ ses'[s].pc = "broadcast" <=> QueueSum(kept) < config.max_rate
                  /\ ses'[s].pc = "broadcast" =>
                        /\ ses'[s].msg_times = Append(kept, [t |-> now, n |-> ses'[s].size])
                        /\ ses'[s].msg_sum = QueueSum(kept) + ses'[s].size
                  /\ ses'[s].pc = "header" =>
                        /\ \A r \in Socks : sock'[r].inbox = sock[r].inbox
                        /\ ses'[s].msg_times = kept
                        /\ ses'[s].msg_sum = QueueSum(kept)
                        /\ ses'[s].fwd = ses[s].fwd
                        /\ connections' = connections
                        /\ Registered(s)
                        /\ ses'[s].hread = 0
      ]_vars

\* every frame sent was read in full, one was dropped, and a later one was
\* forwarded once the first entry had left the window
C14_Witness ==
    \E s \in Socks :
        /\ ses[s].pc = "header" /\ sock[s].wire = <<>> /\ sock[s].cstate = "open"
        /\ Registered(s)
        /\ sends = RateSends
        /\ Len(ses[s].fwd) \in 2..(sends - 1)
        /\ ses[s].fwd[Len(ses[s].fwd)].t > ses[s].fwd[1].t + TicksPerSec
        /\ \E k \in 1..(Len(ses[s].fwd) - 1) :
              /\ ses[s].fwd[k].t = ses[s].fwd[1].t
              /\ WindowSum(ses[s].fwd, ses[s].fwd[1].t, ses[s].fwd[1].t) >= config.max_rate

\* C15: no step of a broadcast changes the registry; a write to a socket that
\* cannot take it changes nothing and the broadcast goes on to the entries
\* left, each of which is written to if it can take the write, and ends with
\* the sender back at reading; an entry leaves the registry only in the
\* remove block of the session whose socket it holds.
C15_BroadcastKeepsRegistry ==
    /\ [][\A s \in Socks :
            (ses[s].pc \in {"broadcast", "writing"} /\ ses'[s] # ses[s]) =>
                /\ connections' = connections
                /\ ses'[s].pc \in {"writing", "header"}
                /\ ses[s].pc = "writing" =>
                      /\ ses'[s].todo \subseteq ses[s].todo
                      /\ \A r \in Socks :
                            IF /\ Writable(r)
                               /\ r = connections[IF ses[s].cur = 0 THEN ses'[s].cur
                                                  ELSE ses[s].cur]
                            THEN Len(sock'[r].inbox) >= Len(sock[r].inbox)
                                 /\ (ses[s].cur = 0 => Len(sock'[r].inbox) > Len(sock[r].inbox))
                            ELSE sock'[r].inbox = sock[r].inbox
                      /\ (ses[s].cur # 0 /\ ses[s].todo = {}) => ses'[s].pc = "header"
         ]_vars
    /\ [][\A i \in DOMAIN connections :
            i \notin DOMAIN connections' =>
                (ses[connections[i]].pc = "remove" /\ ses'[connections[i]].pc = "closed")
         ]_vars

\* C16: with running false a pass of read_bytes takes nothing off the wire,
\* and every session that was in its read loop when the handler ran is in
\* the end out of the loop and through its remove block.
C16_SessionsLeaveOnCancel ==
    /\ [][\A s \in Socks :
            (~running /\ ses[s].pc \in {"header", "content"} /\ ses'[s] # ses[s]) =>
                sock'[s].wire = sock[s].wire
         ]_vars
    /\ \A s \in Socks :
          (s \in at_interrupt.live) ~> (ses[s].pc = "closed")

\* the threads that wait in connections.lock()
WaitsForLock(s) == ses[s].pc \in {"roll", "add", "broadcast", "remove"}

\* C20: at most one thread holds the mutex; a thread takes it only when no
\* thread holds it; a thread that holds it is not reading and has not ended;
\* and while the process lives a held mutex is released in the end, so that
\* no thread waits for it forever.
C20_LockAlwaysReleased ==
    /\ [](Cardinality(lock) <= 1)
    /\ [](\A s \in lock : ses[s].pc \notin {"header", "content", "closed", "idle"})
    /\ [][\A s \in Socks : (s \in lock' /\ s \notin lock) => lock = {}]_vars
    /\ (lock # {}) ~> (lock = {} \/ ~Alive)
    /\ \A s \in Socks : WaitsForLock(s) ~> (~WaitsForLock(s) \/ ~Alive)

\* the bytes 1..n of two buffers are the same
SamePrefix(a, b, n) == \A i \in 1..n : a[i] = b[i]

\* what makes read_bytes return an Err: the flag cleared, a zero-byte read,
\* or a hard error
ReadCut(s) ==
    \/ ~running
    \/ sock[s].wire = <<>> /\ sock[s].cstate \in {"closed", "reset"}
    \/ s \in shut

\* C17: while a session stays in one call of read_bytes it stays registered,
\* its read offset does not go back and the bytes read so far stay in the
\* buffer; the call returns with the buffer not filled only when the flag is
\* cleared, on a zero-byte read or on a hard error.
C17_TimeoutKeepsProgress ==
    [][\A s \in Socks :
          /\ (ses[s].pc = "header" /\ ses'[s].pc = "header") =>
                /\ ses'[s].hread >= ses[s].hread
                /\ SamePrefix(ses'[s].size_bytes, ses[s].size_bytes, ses[s].hread)
                /\ connections' = connections
          /\ (ses[s].pc = "content" /\ ses'[s].pc = "content") =>
                /\ ses'[s].cread >= ses[s].cread
                /\ SamePrefix(ses'[s].content_bytes, ses[s].content_bytes, ses[s].cread)
                /\ ses'[s].size_bytes = ses[s].size_bytes
                /\ connections' = connections
          /\ (ses[s].pc = "header" /\ ses'[s].pc # "header"
                /\ ses'[s].hread < HeaderLen) => ReadCut(s)
          /\ (ses[s].pc = "content" /\ ses'[s].pc # "content"
                /\ ses'[s].cread < Len(ses[s].content_bytes)) => ReadCut(s)
      ]_vars

\* the frame sent in three pieces, each read by a pass of its own, has come
\* back whole to the sender, who is registered and reading
C17_Witness ==
    /\ sends = ReadSends
    /\ running
    /\ Registered(1) /\ ses[1].pc = "header" /\ ses[1].hread = 0
    /\ sock[1].cstate = "open"
    /\ Flat(sock[1].inbox) = <<6, 0, 0, 0, 1, 2>>

\* the timestamps of a queue never go down
Ascending(q) == \A i, j \in DOMAIN q : i < j => q[i].t <= q[j].t

\* a is what is left of b after removing entries from its front
IsSuffix(a, b) ==
    /\ Len(a) <= Len(b)
    /\ a = SubSeq(b, Len(b) - Len(a) + 1, Len(b))

\* C18: msg_sum is the sum of the weights in msg_times and the timestamps of
\* msg_times never go down; a step changes the queue only by taking entries
\* off its front and adding at most one at its back; and after a pass through
\* the throttle block no entry is older than one second.
C18_LimiterQueueConsistent ==
    /\ [](\A s \in Socks :
            /\ ses[s].msg_sum = QueueSum(ses[s].msg_times)
            /\ Ascending(ses[s].msg_times))
    /\ [][\A s \in Socks :
            /\ \/ IsSuffix(ses'[s].msg_times, ses[s].msg_times)
               \/ /\ ses'[s].msg_times # <<>>
                  /\ IsSuffix(SubSeq(ses'[s].msg_times, 1, Len(ses'[s].msg_times) - 1),
                              ses[s].msg_times)
            /\ Throttled(s) =>
                  \A k \in DOMAIN ses'[s].msg_times :
                      now - ses'[s].msg_times[k].t <= TicksPerSec
         ]_vars

\* a pass through the throttle block has taken two entries off the front and
\* left a later one
C18_Witness ==
    \E s \in Socks :
        /\ Len(ses[s].fwd) >= 4
        /\ Len(ses[s].msg_times) = 2
        /\ ses[s].msg_times[1].t > ses[s].fwd[2].t + TicksPerSec
        /\ ses[s].fwd[1].t = ses[s].fwd[2].t

\* C19: with max_rate at least 1 msg_sum stays within 0..max_rate + 511; with
\* max_rate at most 0 msg_sum stays 0 and the session never reaches its
\* broadcast block.
C19_SumWithinRatePlusFrame ==
    \A s \in Socks :
        /\ config.max_rate >= 1 =>
              (ses[s].msg_sum >= 0 /\ ses[s].msg_sum <= config.max_rate + MaxPacket - 1)
        /\ config.max_rate <= 0 =>
              /\ ses[s].msg_sum = 0
              /\ ses[s].msg_times = <<>>
              /\ ses[s].fwd = <<>>
              /\ ses[s].pc \notin {"broadcast", "writing"}

\* msg_sum stands at max_rate + 511, after a 512-byte frame was let through
\* with the sum one below max_rate
C19_Witness ==
    \E s \in Socks :
        /\ config.max_rate >= 1
        /\ ses[s].msg_sum = config.max_rate + MaxPacket - 1
        /\ ses[s].pc = "broadcast"
        /\ ses[s].size = MaxPacket

====
